---- MODULE Spec2Model ----
(***************************************************************************)
(* A model of src/fix.js: the IMAP connection pool (ImapConnectionPool),   *)
(* the result cache (OtpCache), the request queue (RequestQueue) and the   *)
(* attempts (_fetchOTPInternal) that borrow sessions from the pool.        *)
(*                                                                         *)
(* Every component is checked under its own specification (SpecPool,       *)
(* SpecPoolFault, SpecQueue, SpecCache, SpecRetry); the variables of the   *)
(* other components stay at their initial values there. SpecFetch runs     *)
(* fetchOTP over the cache, the queue and the pool together.               *)
(***************************************************************************)
EXTENDS Integers, Sequences, FiniteSets, TLC

(***************************************************************************)
(* Sizes. The configuration values of CONFIG (src/fix.js:28-51) are scaled *)
(* down; everything else is derived from them.                             *)
(***************************************************************************)
\* CONFIG.poolSize (5 in the source), scaled.
poolSize == 2
\* CONFIG.maxRequestsPerConn (50 in the source), scaled.
maxRequestsPerConn == 2
\* How many times shutdown() is called in a run.
MaxShutdowns == 1
\* How many times acquire() is called in a run.
MaxStarts == 4

\* Concurrent callers of acquire(): more than poolSize, at most
\* CONFIG.maxConcurrent.
NumAttempts == poolSize + 1
\* Sessions ever created in a run: a full pool and one more (a replacement,
\* or a session of a second initialize()); creations beyond it fail, as a
\* refused connection does.
MaxSessions == poolSize + 1

Attempts == 1..NumAttempts
Sessions == 1..MaxSessions
\* conn of an attempt that holds no session.
NoConn == 0
\* undefined + 1 in requestCount.get(conn) + 1 when conn is not a key.
NaN == -1

VARIABLES
  \* ImapConnectionPool (src/fix.js:58-66)
  pool,          \* this.pool: sequence of sessions
  available,     \* this.available: sequence of sessions
  inUse,         \* this.inUse: set of sessions
  requestCount,  \* this.requestCount: map session -> count
  initialized,   \* this.initialized
  marked,        \* sessions with _markedForRefresh = true
  refreshing,    \* sessions whose _scheduleRefresh awaits _createConnection
  closed,        \* sessions on which end() was called
  created,       \* number of sessions created so far (the next identity)
  shutdowns,     \* number of shutdown() calls so far
  \* the attempts (_fetchOTPInternal, src/fix.js:384-413)
  pc,            \* where each attempt is
  initI,         \* loop index i of the initialize() an attempt awaits
  hold,          \* the session an attempt holds (conn), or NoConn
  starts,        \* number of acquire() calls so far
  handedOut,     \* how often acquire() has returned each session
  lastEnd        \* how an attempt ended in the step just taken, if one did

poolVars == <<pool, available, inUse, requestCount, initialized, marked,
              refreshing, closed, created, shutdowns, pc, initI, hold, starts,
              handedOut, lastEnd>>

VARIABLES
  \* RequestQueue (src/fix.js:271-275)
  queue,       \* this.queue: the waiting tasks, by the number of their enqueue call
  processing,  \* this.processing
  tstate,      \* each task: "new", "waiting", "running", "resolved",
               \* "rejected" (fn() settled, .finally not yet run), "done"
  enqueued,    \* number of enqueue() calls so far
  enqAt,       \* the tick at which each task was enqueued
  qnow,        \* the clock
  started,     \* the tasks in the order their fn() was called
  waited       \* the tasks that were not dispatched by their own enqueue()

queueVars == <<queue, processing, tstate, enqueued, enqAt, qnow, started, waited>>

VARIABLES
  \* OtpCache (src/fix.js:214-217)
  cache,  \* this.cache: sequence of [key, data, timestamp]
  cnow,   \* Date.now()
  obs     \* the last call on the cache, what it returned and what it found

cacheVars == <<cache, cnow, obs>>

VARIABLES
  \* one call of _fetchOTPWithRetry (src/fix.js:362-382) and its recursion
  rpc,       \* "idle", "attempting" (awaits _fetchOTPInternal), "waiting"
             \* (awaits the backoff timer), "resolved", "rejected"
  attempt,   \* the parameter attempt of the innermost invocation
  attempts,  \* number of _fetchOTPInternal invocations so far
  delays,    \* the delays waited so far, in order
  errors,    \* the kinds of the errors the attempts threw so far, in order
  rresult    \* what the call resolved to, or the error it rejected with

retryVars == <<rpc, attempt, attempts, delays, errors, rresult>>

VARIABLES
  \* the IMAP server, seen from the sessions (src/fix.js:110-113)
  faulted  \* the session that emitted 'error' after it was ready, or NoConn

faultVars == <<faulted>>

VARIABLES
  \* the calls of fetchOTP (src/fix.js:334-360), by the order of the calls;
  \* a call's task in the queue and its attempt carry the call's number
  fcalls,    \* number of fetchOTP calls so far
  fargs,     \* each running call's service, targetEmail and fetchType
  fstartAt,  \* each call's startTime
  fstage,    \* "new", "pending" (awaits enqueue), "backoff" (its retry
             \* loop awaits the timer), "returned"
  fattempt,  \* the parameter attempt of the call's _fetchOTPWithRetry
  fres,      \* what the call's task settled with
  fexpired,  \* whether the call's cache.get deleted an expired entry
  fret       \* the call that returned last, its arguments and what it
             \* returned

fetchVars ==
  <<fcalls, fargs, fstartAt, fstage, fattempt, fres, fexpired, fret>>

VARIABLES
  \* one attempt's two folder searches (src/fix.js:393-409, 415-522), by
  \* folder
  boxStage,        \* where the folder's _searchFolder stands: "open"
                   \* (awaits openBox), "search" (awaits conn.search),
                   \* "fetch" (_processEmails runs), "done" (the search
                   \* found no message), "failed" (openBox, search or
                   \* fetch reported an error)
  recentResults,   \* the messages the folder's fetch was asked for
  parsedMsgs,      \* the messages whose simpleParser callback has run
  processedCount,  \* processedCount of the folder's _processEmails
  allEmails,       \* allEmails of the folder's _processEmails
  fetchEvents,     \* which of 'error' and 'end' the fetch has emitted, and
                   \* "timer" once the 500 ms timer of 'end' has run
  folderResult,    \* what the folder's promise resolved with, or Pending
  attemptResult,   \* what the attempt returned, or Pending
  selected         \* the mailbox selected on the attempt's session

searchVars == <<boxStage, recentResults, parsedMsgs, processedCount,
                allEmails, fetchEvents, folderResult, attemptResult,
                selected>>

vars == <<poolVars, queueVars, cacheVars, retryVars, faultVars, searchVars,
         fetchVars>>

\* A step of one component leaves the other components alone.
PoolFrame ==
  UNCHANGED <<queueVars, cacheVars, retryVars, faultVars, searchVars,
              fetchVars>>
QueueFrame ==
  UNCHANGED <<poolVars, cacheVars, retryVars, faultVars, searchVars,
              fetchVars>>
CacheFrame ==
  UNCHANGED <<poolVars, queueVars, retryVars, faultVars, searchVars,
              fetchVars>>
RetryFrame ==
  UNCHANGED <<poolVars, queueVars, cacheVars, faultVars, searchVars,
              fetchVars>>

\* The elements of a sequence.
Range(s) == {s[i] : i \in 1..Len(s)}

PoolInit ==
  /\ pool = <<>>
  /\ available = <<>>
  /\ inUse = {}
  /\ requestCount = <<>>
  /\ initialized = FALSE
  /\ marked = {}
  /\ refreshing = {}
  /\ closed = {}
  /\ created = 0
  /\ shutdowns = 0
  /\ pc = [a \in Attempts |-> "idle"]
  /\ initI = [a \in Attempts |-> 0]
  /\ hold = [a \in Attempts |-> NoConn]
  /\ starts = 0
  /\ handedOut = [s \in Sessions |-> 0]
  /\ lastEnd = "none"

\* requestCount.set(conn, n)
MapSet(m, c, n) == [k \in (DOMAIN m) \cup {c} |-> IF k = c THEN n ELSE m[k]]
\* requestCount.get(conn) + 1
CountPlusOne(m, c) == IF c \in DOMAIN m /\ m[c] # NaN THEN m[c] + 1 ELSE NaN
\* count >= CONFIG.maxRequestsPerConn (false for NaN)
ReachedMax(count) == count # NaN /\ count >= maxRequestsPerConn

\* One more return of a session by acquire(); counted up to one past the
\* ceiling.
HandedOnceMore(n) == IF n > maxRequestsPerConn THEN n ELSE n + 1

\* const conn = this.available.shift(): what is left in this.available
AvailableAfterTakeNoShift == available
AvailableAfterTake == Tail(available)

\* acquire(), from `const conn = this.available.shift()` to `return conn`,
\* with the synchronous start of _scheduleRefresh (conn._markedForRefresh).
Take(a) ==
  LET conn == Head(available)
      count == CountPlusOne(requestCount, conn)
  IN /\ available' = AvailableAfterTake
     /\ inUse' = inUse \cup {conn}
     /\ requestCount' = MapSet(requestCount, conn, count)
     /\ marked' = IF ReachedMax(count) THEN marked \cup {conn} ELSE marked
     /\ refreshing' = IF ReachedMax(count) THEN refreshing \cup {conn} ELSE refreshing
     /\ hold' = [hold EXCEPT ![a] = conn]
     /\ pc' = [pc EXCEPT ![a] = "search"]
     /\ handedOut' = [handedOut EXCEPT ![conn] = HandedOnceMore(@)]
     /\ UNCHANGED <<pool, initialized, closed, created, shutdowns, initI>>

\* acquire() finds this.available empty and sleeps 100 ms.
Sleep(a) ==
  /\ pc' = [pc EXCEPT ![a] = "poll"]
  /\ UNCHANGED <<pool, available, inUse, requestCount, initialized, marked,
                 refreshing, closed, created, shutdowns, handedOut, initI, hold>>

\* _fetchOTPInternal calls pool.acquire() on an initialized pool: the while
\* loop runs at once.
AcquireInitialized(a) ==
  /\ PoolFrame
  /\ pc[a] = "idle"
  /\ starts < MaxStarts
  /\ initialized
  /\ starts' = starts + 1
  /\ lastEnd' = "none"
  /\ IF available # <<>> THEN Take(a) ELSE Sleep(a)

\* pool.acquire() on a pool that is not initialized: initialize() passes its
\* `if (this.initialized) return` and awaits _createConnection(0).
AcquireUninitialized(a) ==
  /\ PoolFrame
  /\ pc[a] = "idle"
  /\ starts < MaxStarts
  /\ ~initialized
  /\ starts' = starts + 1
  /\ lastEnd' = "none"
  /\ pc' = [pc EXCEPT ![a] = "init"]
  /\ initI' = [initI EXCEPT ![a] = 0]
  /\ UNCHANGED <<pool, available, inUse, requestCount, initialized, marked,
                 refreshing, closed, created, shutdowns, handedOut, hold>>

\* initialize(): `await this._createConnection(i)` settles; on success the
\* session is pushed; after the last index this.initialized is set.
InitStep(a, ok) ==
  /\ PoolFrame
  /\ pc[a] = "init"
  /\ ok => created < MaxSessions
  /\ LET conn == created + 1
         last == initI[a] + 1 >= poolSize
     IN /\ IF ok
             THEN /\ created' = conn
                  /\ pool' = Append(pool, conn)
                  /\ available' = Append(available, conn)
                  /\ requestCount' = MapSet(requestCount, conn, 0)
             ELSE UNCHANGED <<created, pool, available, requestCount>>
        /\ initI' = [initI EXCEPT ![a] = IF last THEN 0 ELSE initI[a] + 1]
        /\ initialized' = IF last THEN TRUE ELSE initialized
        /\ pc' = [pc EXCEPT ![a] = IF last THEN "resume" ELSE "init"]
  /\ lastEnd' = "none"
  /\ UNCHANGED <<inUse, marked, refreshing, closed, shutdowns, handedOut, hold, starts>>

\* acquire() resumes after `await this.initialize()`: startTime is taken and
\* the while loop runs for the first time.
AcquireResume(a) ==
  /\ PoolFrame
  /\ pc[a] = "resume"
  /\ lastEnd' = "none"
  /\ UNCHANGED starts
  /\ IF available # <<>> THEN Take(a) ELSE Sleep(a)

\* The 100 ms sleep of acquire()'s loop is over and a session is available.
AcquirePoll(a) ==
  /\ PoolFrame
  /\ pc[a] = "poll"
  /\ available # <<>>
  /\ lastEnd' = "none"
  /\ UNCHANGED starts
  /\ Take(a)

\* The sleep is over, no session is available and queueTimeout has elapsed:
\* acquire() throws, outside the try block of _fetchOTPInternal.
AcquireTimeout(a) ==
  /\ PoolFrame
  /\ pc[a] = "poll"
  /\ available = <<>>
  /\ pc' = [pc EXCEPT ![a] = "idle"]
  /\ lastEnd' = "poolTimeout"
  /\ UNCHANGED <<pool, available, inUse, requestCount, initialized, marked,
                 refreshing, closed, created, shutdowns, handedOut, initI, hold, starts>>

\* release(conn): this.inUse and this.available afterwards.
release(conn) ==
  [inUse |-> inUse \ {conn},
   available |-> IF conn \in marked THEN available ELSE Append(available, conn)]

\* The try block of _fetchOTPInternal ends in `finally`: release runs for
\* every outcome.
ReleasesOnExitNoFinally(outcome) == outcome # "error"
ReleasesOnExit(outcome) == TRUE

Outcomes == {"found", "empty", "error"}

\* The Promise.all of the two folder searches settles (an artifact, nothing,
\* or a thrown error) and the attempt leaves its try block.
AttemptEnd(a, outcome) ==
  /\ PoolFrame
  /\ pc[a] = "search"
  /\ LET r == release(hold[a])
         rel == ReleasesOnExit(outcome)
     IN /\ inUse' = IF rel THEN r.inUse ELSE inUse
        /\ available' = IF rel THEN r.available ELSE available
        /\ lastEnd' = outcome
        /\ hold' = [hold EXCEPT ![a] = IF rel THEN NoConn ELSE hold[a]]
  /\ pc' = [pc EXCEPT ![a] = "idle"]
  /\ UNCHANGED <<pool, requestCount, initialized, marked, refreshing, closed,
                 created, shutdowns, handedOut, initI, starts>>

\* this.pool after `this.pool[poolIndex] = newConn` (indexOf: first match).
ReplaceInPool(conn, newConn) ==
  IF \E i \in 1..Len(pool) : pool[i] = conn
    THEN LET idx == CHOOSE i \in 1..Len(pool) :
                      pool[i] = conn /\ \A j \in 1..(i - 1) : pool[j] # conn
         IN [pool EXCEPT ![idx] = newConn]
    ELSE pool

\* _scheduleRefresh(conn) resumes after `await this._createConnection(..)`.
RefreshDone(conn, ok) ==
  /\ PoolFrame
  /\ conn \in refreshing
  /\ ok => created < MaxSessions
  /\ refreshing' = refreshing \ {conn}
  /\ IF ok
       THEN LET newConn == created + 1
            IN /\ created' = newConn
               /\ pool' = ReplaceInPool(conn, newConn)
               /\ available' = Append(available, newConn)
               /\ requestCount' = MapSet(requestCount, newConn, 0)
               /\ closed' = closed \cup {conn}
       ELSE UNCHANGED <<created, pool, available, requestCount, closed>>
  /\ UNCHANGED <<inUse, initialized, marked, shutdowns, handedOut, pc, initI, hold, starts>>
  /\ lastEnd' = "none"

\* shutdown(): every session of this.pool is ended, the bookkeeping cleared.
Shutdown ==
  /\ PoolFrame
  /\ shutdowns < MaxShutdowns
  /\ shutdowns' = shutdowns + 1
  /\ closed' = closed \cup Range(pool)
  /\ pool' = <<>>
  /\ available' = <<>>
  /\ inUse' = {}
  /\ requestCount' = <<>>
  /\ initialized' = FALSE
  /\ UNCHANGED <<marked, refreshing, created, handedOut, pc, initI, hold,
                 starts>>
  /\ lastEnd' = "none"

PoolNext ==
  \/ \E a \in Attempts : AcquireInitialized(a)
  \/ \E a \in Attempts : AcquireUninitialized(a)
  \/ \E a \in Attempts, ok \in BOOLEAN : InitStep(a, ok)
  \/ \E a \in Attempts : AcquireResume(a)
  \/ \E a \in Attempts : AcquirePoll(a)
  \/ \E a \in Attempts : AcquireTimeout(a)
  \/ \E a \in Attempts, o \in Outcomes : AttemptEnd(a, o)
  \/ \E c \in Sessions, ok \in BOOLEAN : RefreshDone(c, ok)
  \/ Shutdown

\* The sessions held by callers: acquired and not yet released.
Held == {hold[a] : a \in Attempts} \ {NoConn}

\* Number of occurrences of x in the sequence s.
Count(s, x) == Cardinality({i \in 1..Len(s) : s[i] = x})

(***************************************************************************)
(* Claims about the pool, checked under SpecPool.                          *)
(***************************************************************************)

\* C1: the number of sessions simultaneously held by callers (acquired and
\* not yet released) never exceeds poolSize, so an acquire issued while
\* poolSize sessions are held cannot return before a release.
C1_HeldAtMostPoolSize == Cardinality(Held) <= poolSize

\* C2: at most poolSize sessions are tracked by the pool at any time, also
\* when several first acquires run initialize() concurrently.
C2_AtMostPoolSizeSessions == Len(pool) <= poolSize

\* C3: every session is in at most one of the available list and the in-use
\* set, occurs at most once in the available list, and is held by at most
\* one in-flight attempt.
C3_SessionInOnePlace ==
  /\ \A s \in Sessions : ~(Count(available, s) >= 1 /\ s \in inUse)
  /\ \A s \in Sessions : Count(available, s) <= 1
  /\ \A a, b \in Attempts : a # b /\ hold[a] # NoConn => hold[a] # hold[b]

\* A session that was handed out and released is available again while
\* two attempts hold two other sessions.
C3_Witness ==
  /\ \E s \in Range(available) :
       s \in DOMAIN requestCount /\ requestCount[s] # NaN /\ requestCount[s] >= 1
  /\ Cardinality(Held) >= 2
  /\ Cardinality(inUse) >= 2

\* C4: a session an attempt acquired is released exactly once when the
\* attempt ends, whatever the searches did: the attempt keeps no session
\* after it has ended, and the step that ends it takes the session out of
\* the in-use set and puts it back once (or not at all when the session is
\* marked for replacement).
C4_ReleasedExactlyOnce ==
  /\ [](\A a \in Attempts : pc[a] # "search" => hold[a] = NoConn)
  /\ [][\A a \in Attempts :
          (pc[a] = "search" /\ pc'[a] # "search") =>
            /\ hold'[a] = NoConn
            /\ hold[a] \notin inUse'
            /\ Count(available', hold[a]) =
                 Count(available, hold[a]) + (IF hold[a] \in marked THEN 0 ELSE 1)
       ]_poolVars

\* An attempt has just ended with an error and its session is back in the
\* available list.
C4_Witness ==
  /\ lastEnd = "error"
  /\ Held = {}
  /\ available # <<>>

\* C27: a session that has reached maxRequestsPerConn is retired, it is
\* not put back in the available list when it is released, so that no
\* session is handed out by acquire more than maxRequestsPerConn times.
C27_HandedOutAtMostCeiling ==
  /\ \A s \in Sessions : handedOut[s] <= maxRequestsPerConn
  /\ \A s \in marked : s \in Held \/ s \notin Range(available)

\* C28: retiring a session does not reduce the effective pool size: the
\* sessions that are available or held by an attempt are at least as many
\* as the sessions the pool tracks, while a retired session waits for its
\* replacement and after the replacement's creation has failed.
C28_RetirementKeepsPoolSize ==
  Cardinality(Range(available) \cup Held) >= Len(pool)

\* C29: sessions whose creation failed in initialize() are created on
\* demand: an acquire() on an initialized pool that tracks fewer than
\* poolSize sessions starts the creation of the missing ones.
C29_AcquireCreatesMissingSessions ==
  [][(initialized /\ Len(pool) < poolSize /\ starts' = starts + 1)
       => \E a \in Attempts : pc[a] # "init" /\ pc'[a] = "init"]_vars

\* C19: after shutdown() an acquire() fails fast: the caller neither waits
\* nor receives a session, and no session is created.
C19_AcquireAfterShutdownFailsFast ==
  [][(shutdowns > 0 /\ starts' # starts) =>
       (pc' = pc /\ hold' = hold /\ created' = created)]_vars

\* C35: the refresh ends a session only after its borrower has released it:
\* a step of _scheduleRefresh that calls conn.end() finds conn held by no
\* attempt.
C35_RefreshClosesOnlyReleased ==
  [][\A s \in Sessions :
       (s \notin closed /\ s \in closed' /\ shutdowns' = shutdowns)
       => s \notin Held]_vars

\* C36: every session in the available list is an open session that the
\* pool list tracks, so acquire() never returns a session that was ended.
C36_AvailableAreOpenAndTracked ==
  \A s \in Range(available) : s \notin closed /\ s \in Range(pool)

(***************************************************************************)
(* The pool when nothing is started after shutdown(): the calls of         *)
(* acquire() all come before it, and what is in progress then runs on.     *)
(***************************************************************************)
DrainAcquireInitialized(a) == shutdowns = 0 /\ AcquireInitialized(a)
DrainAcquireUninitialized(a) == shutdowns = 0 /\ AcquireUninitialized(a)

PoolDrainNext ==
  \/ \E a \in Attempts : DrainAcquireInitialized(a)
  \/ \E a \in Attempts : DrainAcquireUninitialized(a)
  \/ \E a \in Attempts, ok \in BOOLEAN : InitStep(a, ok)
  \/ \E a \in Attempts : AcquireResume(a)
  \/ \E a \in Attempts : AcquirePoll(a)
  \/ \E a \in Attempts : AcquireTimeout(a)
  \/ \E a \in Attempts, o \in Outcomes : AttemptEnd(a, o)
  \/ \E c \in Sessions, ok \in BOOLEAN : RefreshDone(c, ok)
  \/ Shutdown

\* shutdown() has run, no attempt is in progress and no session is being
\* created.
Drained ==
  /\ shutdowns > 0
  /\ \A a \in Attempts : pc[a] = "idle"
  /\ refreshing = {}

\* C37: once shutdown() has run and the work in progress has drained, every
\* session the pool created has been ended.
C37_NoSessionOpenAfterDrain ==
  Drained => \A s \in 1..created : s \in closed

(***************************************************************************)
(* Faults of sessions. A session that is ready keeps the listener of       *)
(* imap.once('error') that _createConnection registered                    *)
(* (src/fix.js:110-113): it logs the error and calls reject() of a promise *)
(* that has already resolved, which does nothing. No other listener is     *)
(* registered.                                                             *)
(***************************************************************************)
FaultInit == faulted = NoConn

\* The server reports an unrecoverable fault on session c of the pool: the
\* session emits 'error'.
SessionFault(c) ==
  /\ UNCHANGED <<queueVars, cacheVars, retryVars, fetchVars, searchVars>>
  /\ faulted = NoConn
  /\ c \in Range(pool)
  /\ faulted' = c
  /\ lastEnd' = "none"
  /\ UNCHANGED <<pool, available, inUse, requestCount, initialized, marked,
                 refreshing, closed, created, shutdowns, handedOut, pc, initI, hold,
                 starts>>

PoolFaultNext ==
  \/ PoolNext
  \/ \E c \in Sessions : SessionFault(c)

\* C20: once a session has reported an unrecoverable fault, no acquire()
\* hands it out: no step gives the session to an attempt.
C20_FaultedSessionNotHandedOut ==
  [][faulted # NoConn =>
       \A a \in Attempts : hold'[a] = faulted => hold[a] = faulted]_vars

(***************************************************************************)
(* RequestQueue (src/fix.js:270-298).                                      *)
(***************************************************************************)
\* CONFIG.maxConcurrent (10 in the source, more than CONFIG.poolSize),
\* scaled.
maxConcurrent == 3
\* CONFIG.queueTimeout (30000 ms in the source), scaled to clock ticks.
queueTimeout == 1
\* The capacity of the waiting list that the specification names; the source
\* has no such setting.
maxQueueSize == 2
\* The last tick of the queue's clock.
MaxQueueTime == 2

\* enqueue() calls in a run: enough to fill the running slots and to put
\* more than maxQueueSize tasks in the waiting list.
NumTasks == maxConcurrent + maxQueueSize + 1
Tasks == 1..NumTasks

QueueInit ==
  /\ queue = <<>>
  /\ processing = 0
  /\ tstate = [t \in Tasks |-> "new"]
  /\ enqueued = 0
  /\ enqAt = [t \in Tasks |-> 0]
  /\ qnow = 0
  /\ started = <<>>
  /\ waited = {}

\* _process(): this.processing < this.maxConcurrent
CanDispatchOffByOne(n) == n <= maxConcurrent
CanDispatchSpareSlot(n) == n < maxConcurrent - 1
CanDispatch(n) == n < maxConcurrent

\* _process(): this.queue.shift(), the task taken and what is left
ShiftLast(q) == [task |-> q[Len(q)], rest |-> SubSeq(q, 1, Len(q) - 1)]
Shift(q) == [task |-> Head(q), rest |-> Tail(q)]

\* _process(): the while loop, on the queue state st; every task shifted has
\* its fn() called at once.
RECURSIVE Process(_)
Process(st) ==
  IF CanDispatch(st.processing) /\ Len(st.queue) > 0
    THEN LET sh == Shift(st.queue)
         IN Process([queue |-> sh.rest,
                     processing |-> st.processing + 1,
                     started |-> Append(st.started, sh.task)])
    ELSE st

\* The queue variables after _process() ran on st, whose started tasks run.
AfterProcess(st, ts) ==
  LET r == Process(st)
      new == {r.started[i] : i \in (Len(st.started) + 1)..Len(r.started)}
  IN /\ queue' = r.queue
     /\ processing' = r.processing
     /\ started' = r.started
     /\ tstate' = [t \in Tasks |-> IF t \in new THEN "running" ELSE ts[t]]

\* enqueue(fn): the task is pushed and _process() runs; no test rejects it.
Enqueue ==
  /\ QueueFrame
  /\ enqueued < NumTasks
  /\ LET t == enqueued + 1
         st == [queue |-> Append(queue, t), processing |-> processing,
                started |-> started]
     IN /\ enqueued' = t
        /\ enqAt' = [enqAt EXCEPT ![t] = qnow]
        /\ AfterProcess(st, [tstate EXCEPT ![t] = "waiting"])
        /\ waited' = IF t \in Range(Process(st).queue)
                       THEN waited \cup {t} ELSE waited
  /\ UNCHANGED qnow

\* The promise of fn() settles: .then(resolve) or .catch(reject) runs.
TaskSettle(t, ok) ==
  /\ QueueFrame
  /\ tstate[t] = "running"
  /\ tstate' = [tstate EXCEPT ![t] = IF ok THEN "resolved" ELSE "rejected"]
  /\ UNCHANGED <<queue, processing, enqueued, enqAt, qnow, started, waited>>

\* .finally(): this.processing-- and _process().
TaskFinally(t) ==
  /\ QueueFrame
  /\ tstate[t] \in {"resolved", "rejected"}
  /\ AfterProcess([queue |-> queue, processing |-> processing - 1,
                   started |-> started],
                  [tstate EXCEPT ![t] = "done"])
  /\ UNCHANGED <<enqueued, enqAt, qnow, waited>>

\* Time passes.
QueueTick ==
  /\ QueueFrame
  /\ qnow < MaxQueueTime
  /\ qnow' = qnow + 1
  /\ UNCHANGED <<queue, processing, tstate, enqueued, enqAt, started, waited>>

QueueNext ==
  \/ Enqueue
  \/ \E t \in Tasks, ok \in BOOLEAN : TaskSettle(t, ok)
  \/ \E t \in Tasks : TaskFinally(t)
  \/ QueueTick

Running == {t \in Tasks : tstate[t] = "running"}

(***************************************************************************)
(* Claims about the queue, checked under SpecQueue.                        *)
(***************************************************************************)

\* C5: the number of tasks that were dispatched and have not yet settled is
\* at most maxConcurrent in every reachable state.
C5_RunningAtMostMaxConcurrent ==
  /\ Cardinality(Running) <= maxConcurrent
  /\ Cardinality(Running) <= processing

\* All running slots are taken while a task waits.
C5_Witness == Cardinality(Running) = maxConcurrent /\ queue # <<>>

\* C6: waiting tasks are dispatched in the order they were enqueued: of two
\* tasks that both had to wait, the one enqueued first has its function
\* started first.
C6_WaitersStartFifo ==
  \A i, j \in 1..Len(started) :
    (i < j /\ started[i] \in waited /\ started[j] \in waited)
      => started[i] < started[j]

\* Two tasks that both had to wait have both been started.
C6_Witness ==
  \E i, j \in 1..Len(started) :
    i < j /\ started[i] \in waited /\ started[j] \in waited

\* C7: enqueue rejects a task when maxQueueSize tasks are waiting, so the
\* waiting list never holds more than maxQueueSize tasks.
C7_WaitingAtMostMaxQueueSize == Len(queue) <= maxQueueSize

\* C8: a task still waiting when its queueTimeout deadline has passed is
\* rejected and removed: no task waits in the queue past its deadline.
C8_NoWaiterPastDeadline ==
  \A t \in Tasks : tstate[t] = "waiting" => qnow - enqAt[t] <= queueTimeout

\* The queue without its clock: RequestQueue reads no time.
QueueUntimedNext ==
  \/ Enqueue
  \/ \E t \in Tasks, ok \in BOOLEAN : TaskSettle(t, ok)
  \/ \E t \in Tasks : TaskFinally(t)

\* The promise of every fn() that was called settles, and the .finally()
\* callback of a settled promise runs.
QueueFairness ==
  /\ \A t \in Tasks : WF_vars(\E ok \in BOOLEAN : TaskSettle(t, ok))
  /\ \A t \in Tasks : WF_vars(TaskFinally(t))

\* C32: a task waits only while maxConcurrent tasks are counted as in
\* progress (_process dispatches as soon as a count is given back), and
\* every task that waits is started in the end, provided every running
\* task settles.
C32_WaitersAreDispatched ==
  /\ [](queue # <<>> => processing >= maxConcurrent)
  /\ \A t \in Tasks : (tstate[t] = "waiting") ~> (tstate[t] = "running")

\* A task that had to wait runs, all slots are taken and another task
\* waits.
C32_Witness ==
  /\ queue # <<>>
  /\ processing = maxConcurrent
  /\ \E t \in waited : tstate[t] = "running"
  /\ \E t \in Tasks : tstate[t] = "done"

(***************************************************************************)
(* OtpCache (src/fix.js:213-264). this.cache is a Map: it iterates in      *)
(* insertion order, and setting a key it already holds keeps the key's     *)
(* place. It is modelled as the sequence of its entries in that order.     *)
(* Strings are sequences of characters.                                    *)
(***************************************************************************)
\* CONFIG.cacheTTL (300000 ms in the source), scaled to clock ticks.
cacheTTL == 1
\* CONFIG.maxCacheSize (1000 in the source), scaled. Three is the least size
\* at which a key can be set again while the map holds another key and has
\* room left.
maxCacheSize == 3
\* CONFIG.cacheEnabled
cacheEnabled == TRUE
\* The last tick of the cache's clock.
MaxCacheTime == 3

Emails == {<<"a">>, <<"a", ":", "b">>}
Services == {<<"s">>, <<"b", ":", "s">>}
Data == {"v1", "v2"}
Null == "null"
\* No timestamp: the field of obs is not set.
NoTime == 0 - 1

\* const key = `${email}:${service}`
CacheKey(email, service) == email \o <<":">> \o service

\* The place of key in the map, 0 when the map does not hold it.
IndexOf(c, key) ==
  IF \E i \in 1..Len(c) : c[i].key = key
    THEN CHOOSE i \in 1..Len(c) : c[i].key = key
    ELSE 0

\* this.cache.delete(key)
MapDelete(c, key) ==
  LET i == IndexOf(c, key)
  IN IF i = 0 THEN c ELSE SubSeq(c, 1, i - 1) \o SubSeq(c, i + 1, Len(c))

\* this.cache.set(key, entry)
MapPutIfAbsent(c, entry) ==
  IF IndexOf(c, entry.key) = 0 THEN Append(c, entry) ELSE c
MapPut(c, entry) ==
  LET i == IndexOf(c, entry.key)
  IN IF i = 0 THEN Append(c, entry) ELSE [c EXCEPT ![i] = entry]

\* Date.now() - entry.timestamp > CONFIG.cacheTTL
ExpiredReversed(timestamp, now) == timestamp - now > cacheTTL
Expired(timestamp, now) == now - timestamp > cacheTTL

\* get(email, service): what it returns and this.cache afterwards.
CacheGet(c, email, service, now) ==
  LET key == CacheKey(email, service)
      i == IndexOf(c, key)
  IN IF ~cacheEnabled THEN [result |-> Null, cache |-> c]
     ELSE IF i = 0 THEN [result |-> Null, cache |-> c]
     ELSE IF Expired(c[i].timestamp, now)
       THEN [result |-> Null, cache |-> MapDelete(c, key)]
       ELSE [result |-> c[i].data, cache |-> c]

\* if (this.cache.size >= CONFIG.maxCacheSize) delete the first key of
\* this.cache.keys(): this.cache afterwards.
EvictFirst(c) ==
  IF Len(c) >= maxCacheSize /\ Len(c) > 0 THEN MapDelete(c, c[1].key) ELSE c

\* set(email, service, data): this.cache afterwards.
CacheSet(c, email, service, data, now) ==
  LET key == CacheKey(email, service)
      kept == EvictFirst(c)
  IN IF ~cacheEnabled THEN c
     ELSE MapPut(kept, [key |-> key, data |-> data, timestamp |-> now])

\* The timestamps of the entries of c.
Timestamps(c) == {c[i].timestamp : i \in 1..Len(c)}
\* The least of a set of timestamps, NoTime when there is none.
Oldest(ts) == IF ts = {} THEN NoTime ELSE CHOOSE t \in ts : \A u \in ts : t <= u
\* The entries of c that the eviction of a set() removes.
Evicted(c) ==
  LET kept == EvictFirst(c)
  IN {c[i] : i \in {j \in 1..Len(c) : IndexOf(kept, c[j].key) = 0}}

NoObs ==
  [op |-> "none", email |-> <<>>, service |-> <<>>, at |-> NoTime,
   data |-> Null, result |-> Null, foundAt |-> NoTime,
   sizeBefore |-> 0, sizeAfter |-> 0, setData |-> Null, setAt |-> NoTime,
   evicted |-> 0, evictedAt |-> NoTime, oldestAt |-> NoTime]

CacheInit ==
  /\ cache = <<>>
  /\ cnow = 0
  /\ obs = NoObs

\* A caller calls set(email, service, data). obs keeps how many entries the
\* call evicted, the timestamp of the evicted entry and the oldest timestamp
\* the cache held before the call.
Set(email, service, data) ==
  /\ CacheFrame
  /\ cache' = CacheSet(cache, email, service, data, cnow)
  /\ obs' = [NoObs EXCEPT !.op = "set", !.email = email, !.service = service,
                          !.at = cnow, !.data = data,
                          !.sizeBefore = Len(cache), !.sizeAfter = Len(cache'),
                          !.evicted = Cardinality(Evicted(cache)),
                          !.evictedAt = Oldest({e.timestamp : e \in Evicted(cache)}),
                          !.oldestAt = Oldest(Timestamps(cache))]
  /\ UNCHANGED cnow

\* A caller calls get(email, service). obs keeps the timestamp of the entry
\* the key had before the call, and the set() that came right before the
\* call when it was for the same email and service.
Get(email, service) ==
  /\ CacheFrame
  /\ LET r == CacheGet(cache, email, service, cnow)
         i == IndexOf(cache, CacheKey(email, service))
         follows == obs.op = "set" /\ obs.email = email /\ obs.service = service
     IN /\ cache' = r.cache
        /\ obs' = [NoObs EXCEPT
                     !.op = "get", !.email = email, !.service = service,
                     !.at = cnow, !.result = r.result,
                     !.foundAt = IF i = 0 THEN NoTime ELSE cache[i].timestamp,
                     !.sizeBefore = Len(cache), !.sizeAfter = Len(r.cache),
                     !.setData = IF follows THEN obs.data ELSE Null,
                     !.setAt = IF follows THEN obs.at ELSE NoTime]
  /\ UNCHANGED cnow

\* clear()
Clear ==
  /\ CacheFrame
  /\ cache # <<>>
  /\ cache' = <<>>
  /\ obs' = [NoObs EXCEPT !.op = "clear", !.at = cnow, !.sizeBefore = Len(cache)]
  /\ UNCHANGED cnow

\* Time passes.
CacheTick ==
  /\ CacheFrame
  /\ cnow < MaxCacheTime
  /\ cnow' = cnow + 1
  /\ UNCHANGED <<cache, obs>>

CacheNext ==
  \/ \E e \in Emails, s \in Services, d \in Data : Set(e, s, d)
  \/ \E e \in Emails, s \in Services : Get(e, s)
  \/ Clear
  \/ CacheTick

\* size()
CacheSize == Len(cache)

(***************************************************************************)
(* Claims about the cache, checked under SpecCache.                        *)
(***************************************************************************)

\* C9: a get() of a key whose entry is older than cacheTTL returns null and
\* deletes the entry, so size() is smaller by one afterwards; get() returns
\* an entry only when the key had one that is not older than cacheTTL.
C9_NoExpiredEntryReturned ==
  obs.op = "get" =>
    /\ (obs.foundAt # NoTime /\ obs.at - obs.foundAt > cacheTTL) =>
         /\ obs.result = Null
         /\ obs.sizeAfter = obs.sizeBefore - 1
         /\ CacheSize = obs.sizeAfter
         /\ IndexOf(cache, CacheKey(obs.email, obs.service)) = 0
    /\ obs.result # Null =>
         (obs.foundAt # NoTime /\ obs.at - obs.foundAt <= cacheTTL)

\* A get() has just found an entry older than cacheTTL.
C9_Witness ==
  /\ obs.op = "get"
  /\ obs.foundAt # NoTime
  /\ obs.at - obs.foundAt > cacheTTL
  /\ obs.sizeBefore = maxCacheSize

\* C10: set(k, v) immediately followed by get(k) no later than cacheTTL after
\* it returns v, whatever the cache held before.
C10_GetAfterSetReturnsValue ==
  (obs.op = "get" /\ obs.setAt # NoTime /\ obs.at - obs.setAt <= cacheTTL)
    => obs.result = obs.setData

\* A get() has just followed the set() of its key, cacheTTL later, and found
\* the entry of that set() in a full cache.
C10_Witness ==
  /\ obs.op = "get"
  /\ obs.setAt # NoTime
  /\ obs.at = obs.setAt + cacheTTL
  /\ obs.sizeAfter = maxCacheSize
  /\ obs.foundAt = obs.setAt

\* C11: a set() on a cache that holds maxCacheSize entries evicts exactly one
\* entry, and that entry has the oldest timestamp of the cache, whatever
\* set() calls came before (those that set a key again included).
C11_EvictsOldestTimestamp ==
  (obs.op = "set" /\ obs.sizeBefore = maxCacheSize) =>
    /\ obs.evicted = 1
    /\ obs.evictedAt = obs.oldestAt

(***************************************************************************)
(* The retry loop of one fetchOTP call (_fetchOTPWithRetry,                *)
(* src/fix.js:362-382). What an attempt (_fetchOTPInternal) does is an     *)
(* input of the loop: it returns an artifact, returns null, or throws. The *)
(* loop does not look at the error it catches; the model keeps the kind of *)
(* each error to tell what the loop did after it.                          *)
(***************************************************************************)
\* CONFIG.maxRetries
maxRetries == 3
\* CONFIG.initialRetryDelay, in ms
initialRetryDelay == 1000
\* CONFIG.maxRetryDelay, in ms
maxRetryDelay == 5000
\* The factor of Math.random() in the delay, in ms
jitterSpan == 1000

\* Math.random() * 1000 lies in [0, 1000): its least value, the middle and
\* the greatest whole value.
Jitters == {0, jitterSpan \div 2, jitterSpan - 1}
\* An attempt's artifact.
Found == "found"
\* What an attempt returns: _finishProcessing's first result, or null.
Returns == {Found, Null}
\* What an attempt throws: a failure that may pass (a dropped connection, no
\* session within queueTimeout) or one that cannot (rejected credentials, a
\* missing targetEmail).
ErrorKinds == {"transient", "fatal"}

\* Math.min
Min(a, b) == IF a <= b THEN a ELSE b

\* const delay = Math.min(CONFIG.initialRetryDelay * Math.pow(2, attempt)
\*                        + Math.random() * 1000, CONFIG.maxRetryDelay)
RetryDelayNextUnclamped(n, jitter) == initialRetryDelay * 2 ^ (n + 1) + jitter
RetryDelayFlat(n, jitter) == Min(initialRetryDelay + jitter, maxRetryDelay)
RetryDelay(n, jitter) ==
  Min(initialRetryDelay * 2 ^ n + jitter, maxRetryDelay)

\* if (attempt >= CONFIG.maxRetries)
RetriesExhaustedNever(n) == FALSE
RetriesExhaustedLate(n) == n > maxRetries
RetriesExhausted(n) == n >= maxRetries

RetryInit ==
  /\ rpc = "idle"
  /\ attempt = 0
  /\ attempts = 0
  /\ delays = <<>>
  /\ errors = <<>>
  /\ rresult = Null

\* The task of fetchOTP calls _fetchOTPWithRetry(service, targetEmail,
\* fetchType, 0), which calls _fetchOTPInternal.
RetryStart ==
  /\ RetryFrame
  /\ rpc = "idle"
  /\ rpc' = "attempting"
  /\ attempt' = 0
  /\ attempts' = attempts + 1
  /\ UNCHANGED <<delays, errors, rresult>>

\* The attempt returns r: return await this._fetchOTPInternal(...).
AttemptReturns(r) ==
  /\ RetryFrame
  /\ rpc = "attempting"
  /\ rpc' = "resolved"
  /\ rresult' = r
  /\ UNCHANGED <<attempt, attempts, delays, errors>>

\* The attempt throws: the catch block rethrows when the retries are used
\* up, and otherwise computes the delay and starts the timer.
AttemptThrows(kind, jitter) ==
  /\ RetryFrame
  /\ rpc = "attempting"
  /\ errors' = Append(errors, kind)
  /\ IF RetriesExhausted(attempt)
       THEN /\ rpc' = "rejected"
            /\ rresult' = kind
            /\ UNCHANGED delays
       ELSE /\ rpc' = "waiting"
            /\ delays' = Append(delays, RetryDelay(attempt, jitter))
            /\ UNCHANGED rresult
  /\ UNCHANGED <<attempt, attempts>>

\* The timer fires: _fetchOTPWithRetry(..., attempt + 1) calls
\* _fetchOTPInternal again.
DelayElapsed ==
  /\ RetryFrame
  /\ rpc = "waiting"
  /\ rpc' = "attempting"
  /\ attempt' = attempt + 1
  /\ attempts' = attempts + 1
  /\ UNCHANGED <<delays, errors, rresult>>

RetryNext ==
  \/ RetryStart
  \/ \E r \in Returns : AttemptReturns(r)
  \/ \E kind \in ErrorKinds, jitter \in Jitters : AttemptThrows(kind, jitter)
  \/ DelayElapsed

(***************************************************************************)
(* Claims about the retry loop, checked under SpecRetry.                   *)
(***************************************************************************)

\* C14 as stated: one fetchOTP call makes at most maxRetries attempts
\* (invocations of _fetchOTPInternal), however the attempts fail.
C14_AttemptsAtMostMaxRetries == attempts <= maxRetries

\* C14, amended: one fetchOTP call makes at most maxRetries + 1 attempts,
\* the first one and maxRetries retries, however the attempts fail.
C14_AttemptsAtMostRetriesPlusOne == attempts <= maxRetries + 1

\* Every attempt threw and the call rejected after the last one.
C14_Witness ==
  /\ rpc = "rejected"
  /\ attempts = maxRetries + 1
  /\ Len(errors) = attempts

\* C15: every delay the loop waits between attempts, jitter included, is at
\* most maxRetryDelay.
C15_DelayAtMostMax ==
  \A i \in 1..Len(delays) : delays[i] <= maxRetryDelay

\* The loop waited before its last retry with the greatest jitter.
C15_Witness ==
  /\ Len(delays) = maxRetries
  /\ delays[maxRetries] =
       Min(initialRetryDelay * 2 ^ (maxRetries - 1) + jitterSpan - 1, maxRetryDelay)
  /\ rpc = "waiting"

\* C16: within one call the delays are non-decreasing: the delay before
\* attempt n + 1 is at least the delay before attempt n, whatever the jitter.
C16_DelaysNonDecreasing ==
  \A i \in 1..(Len(delays) - 1) : delays[i] <= delays[i + 1]

\* The loop waited with the greatest jitter and then with the least.
C16_Witness ==
  /\ Len(delays) >= 2
  /\ delays[1] = initialRetryDelay + jitterSpan - 1
  /\ delays[2] = initialRetryDelay * 2

\* C17: the call resolves to null only after the attempts of the whole
\* budget found nothing: an attempt that returns null with retries left is
\* followed by a delay and another attempt.
C17_NullOnlyAfterAllAttempts ==
  (rpc = "resolved" /\ rresult = Null) => attempts >= maxRetries

\* C18: an attempt that fails with a failure that cannot pass ends the
\* loop: the call rejects at once, with no delay and no attempt after it.
C18_FatalStopsRetries ==
  \A i \in 1..Len(errors) :
    errors[i] = "fatal" =>
      /\ i = Len(errors)
      /\ rpc = "rejected"
      /\ Len(delays) < i

(***************************************************************************)
(* fetchOTP (src/fix.js:334-360): the cache, the queue, the retry loop and *)
(* the attempts together. Call c's task in the queue is task c and its     *)
(* attempts are attempt c of the pool. An artifact is named by the kind of *)
(* request whose search found it; the timeTaken that fetchOTP writes into  *)
(* the result before it caches it is overwritten on every hit and is kept  *)
(* only in what the call returns. Callbacks that run in one drain of the   *)
(* microtask queue are one step: the catch block runs with the throw, and  *)
(* .finally() of the task runs with the continuation of fetchOTP.          *)
(***************************************************************************)
\* How many times fetchOTP is called in a run: every call has its attempt
\* among the attempts of the pool.
MaxFetches == NumAttempts

Calls == 1..MaxFetches
\* targetEmail is never empty in these calls: _fetchOTPInternal passes its
\* `if (!targetEmail)` test.
FetchEmails == {<<"a">>}
FetchServices == {<<"s">>}
FetchTypes == {"otp", "reset"}

NoArgs == [service |-> <<>>, email |-> <<>>, fetchType |-> "none"]
\* What a task settles with, or a call returns: nothing yet ("none"), null,
\* an artifact ("value") or an error ("threw").
NoResult == [status |-> "none", kind |-> "none", cached |-> FALSE, timeTaken |-> 0]
NullResult == [NoResult EXCEPT !.status = "null"]
Threw == [NoResult EXCEPT !.status = "threw"]
\* The errors that reach the retry loop: acquire() throws 'Connection pool
\* timeout - no connections available' ("poolTimeout"), or a call on the
\* session throws during the searches ("error").
Faults == {"poolTimeout", "error"}
ThrewError(kind) == [Threw EXCEPT !.kind = kind]
Artifact(kind) == [NoResult EXCEPT !.status = "value", !.kind = kind]

\* return { ...cached, cached: true, timeTaken: 0 }
CachedResultUnmarked(data) == Artifact(data)
CachedResult(data) == [Artifact(data) EXCEPT !.cached = TRUE, !.timeTaken = 0]

\* result.timeTaken = Math.round((Date.now() - startTime) / 1000), in ticks
TimeTaken(startTime, now) == now - startTime

NoReturn == [call |-> 0, args |-> NoArgs, result |-> NoResult]

FetchInit ==
  /\ fcalls = 0
  /\ fargs = [c \in Calls |-> NoArgs]
  /\ fstartAt = [c \in Calls |-> 0]
  /\ fstage = [c \in Calls |-> "new"]
  /\ fattempt = [c \in Calls |-> 0]
  /\ fres = [c \in Calls |-> NoResult]
  /\ fexpired = [c \in Calls |-> FALSE]
  /\ fret = NoReturn

\* No call of the pool is made.
PoolIdle ==
  UNCHANGED <<pool, available, inUse, requestCount, initialized, marked,
              refreshing, closed, created, shutdowns, handedOut, pc, initI, hold, starts>>

\* _fetchOTPInternal up to the first await of its pool.acquire(): the while
\* loop runs at once on an initialized pool, initialize() starts on one that
\* is not.
AcquireStartWithin(max, a) ==
  /\ starts < max
  /\ starts' = starts + 1
  /\ IF initialized
       THEN IF available # <<>> THEN Take(a) ELSE Sleep(a)
       ELSE /\ pc' = [pc EXCEPT ![a] = "init"]
            /\ initI' = [initI EXCEPT ![a] = 0]
            /\ UNCHANGED <<pool, available, inUse, requestCount, initialized,
                           marked, refreshing, closed, created, shutdowns, handedOut,
                           hold>>

AcquireStart(a) == AcquireStartWithin(MaxStarts, a)

\* _process() runs on the queue q with n tasks in progress, the tasks being
\* in the states ts: the dispatched task's fn() runs up to its first await.
\* At most one task is dispatched, as the queue holds a task only when every
\* running slot is taken. The order of the dispatches is not recorded here.
ProcessAndStartWithin(max, q, n, ts) ==
  LET r == Process([queue |-> q, processing |-> n, started |-> <<>>])
      new == Range(r.started)
  IN /\ queue' = r.queue
     /\ processing' = r.processing
     /\ tstate' = [t \in Tasks |-> IF t \in new THEN "running" ELSE ts[t]]
     /\ IF new = {}
          THEN PoolIdle
          ELSE AcquireStartWithin(max, CHOOSE c \in new : TRUE)
     /\ UNCHANGED started

ProcessAndStart(q, n, ts) == ProcessAndStartWithin(MaxStarts, q, n, ts)

\* fetchOTP(service, targetEmail, fetchType), up to its return on a hit or
\* its first await (enqueue) on a miss.
FetchOTPWithin(max, service, email, fetchType) ==
  /\ fcalls < MaxFetches
  /\ LET c == fcalls + 1
         r == CacheGet(cache, email, service, cnow)
         args == [service |-> service, email |-> email, fetchType |-> fetchType]
     IN /\ fcalls' = c
        /\ cache' = r.cache
        /\ fexpired' = [fexpired EXCEPT ![c] = r.cache # cache]
        /\ IF r.result # Null
             THEN /\ fret' = [call |-> c, args |-> args,
                              result |-> CachedResult(r.result)]
                  /\ fstage' = [fstage EXCEPT ![c] = "returned"]
                  /\ PoolIdle
                  /\ UNCHANGED <<queue, processing, tstate, started, fstartAt,
                                 fargs>>
             ELSE /\ ProcessAndStartWithin(max, Append(queue, c), processing,
                                           [tstate EXCEPT ![c] = "waiting"])
                  /\ fstage' = [fstage EXCEPT ![c] = "pending"]
                  /\ fargs' = [fargs EXCEPT ![c] = args]
                  /\ fstartAt' = [fstartAt EXCEPT ![c] = cnow]
                  /\ UNCHANGED fret
  /\ lastEnd' = "none"
  /\ UNCHANGED <<fattempt, fres, enqueued, enqAt, qnow, waited, cnow, obs>>
  /\ UNCHANGED <<retryVars, faultVars, searchVars>>

FetchOTP(service, email, fetchType) ==
  FetchOTPWithin(MaxStarts, service, email, fetchType)

\* How the attempt's searches end for _fetchOTPInternal: a throw inside its
\* try block leaves through finally to the retry loop; a result, found or
\* null, is returned.
AttemptThrewUnlessFound(outcome) == outcome # "found"
AttemptThrew(outcome) == outcome = "error"

\* The catch block of call c's _fetchOTPWithRetry: it rethrows when the
\* retries are used up (.catch(reject) of the task) and starts the timer
\* otherwise.
Caught(c, error) ==
  IF RetriesExhausted(fattempt[c])
    THEN /\ fres' = [fres EXCEPT ![c] = ThrewError(error)]
         /\ tstate' = [tstate EXCEPT ![c] = "rejected"]
         /\ UNCHANGED fstage
    ELSE /\ fstage' = [fstage EXCEPT ![c] = "backoff"]
         /\ UNCHANGED <<fres, tstate>>

\* The Promise.all of call c's searches settles and _fetchOTPInternal leaves
\* its try block through finally: release(conn). A result, null included,
\* goes through _fetchOTPWithRetry to .then(resolve) of the task; an error
\* goes to the catch block.
FetchAttemptEnd(c, outcome) ==
  /\ fstage[c] = "pending"
  /\ pc[c] = "search"
  /\ LET r == release(hold[c])
         rel == ReleasesOnExit(outcome)
     IN /\ inUse' = IF rel THEN r.inUse ELSE inUse
        /\ available' = IF rel THEN r.available ELSE available
        /\ hold' = [hold EXCEPT ![c] = IF rel THEN NoConn ELSE hold[c]]
  /\ pc' = [pc EXCEPT ![c] = "idle"]
  /\ lastEnd' = "none"
  /\ UNCHANGED <<pool, requestCount, initialized, marked, refreshing, closed,
                 created, shutdowns, handedOut, initI, starts>>
  /\ IF AttemptThrew(outcome)
       THEN Caught(c, outcome)
       ELSE /\ fres' = [fres EXCEPT ![c] =
                          IF outcome = "found" THEN Artifact(fargs[c].fetchType)
                          ELSE NullResult]
            /\ tstate' = [tstate EXCEPT ![c] = "resolved"]
            /\ UNCHANGED fstage
  /\ UNCHANGED <<fcalls, fargs, fstartAt, fattempt, fexpired, fret>>
  /\ UNCHANGED <<queue, processing, enqueued, enqAt, qnow, started, waited>>
  /\ UNCHANGED <<cacheVars, retryVars, faultVars, searchVars>>

\* Call c's acquire() finds no session after queueTimeout and throws, outside
\* the try block of _fetchOTPInternal.
FetchAcquireTimeout(c) ==
  /\ fstage[c] = "pending"
  /\ pc[c] = "poll"
  /\ available = <<>>
  /\ pc' = [pc EXCEPT ![c] = "idle"]
  /\ lastEnd' = "none"
  /\ Caught(c, "poolTimeout")
  /\ UNCHANGED <<pool, available, inUse, requestCount, initialized, marked,
                 refreshing, closed, created, shutdowns, handedOut, initI, hold, starts>>
  /\ UNCHANGED <<fcalls, fargs, fstartAt, fattempt, fexpired, fret>>
  /\ UNCHANGED <<queue, processing, enqueued, enqAt, qnow, started, waited>>
  /\ UNCHANGED <<cacheVars, retryVars, faultVars, searchVars>>

\* The timer fires: _fetchOTPWithRetry(..., attempt + 1) runs up to the first
\* await of its _fetchOTPInternal.
FetchRetryWithin(max, c) ==
  /\ fstage[c] = "backoff"
  /\ fattempt' = [fattempt EXCEPT ![c] = fattempt[c] + 1]
  /\ fstage' = [fstage EXCEPT ![c] = "pending"]
  /\ AcquireStartWithin(max, c)
  /\ lastEnd' = "none"
  /\ UNCHANGED <<fcalls, fargs, fstartAt, fres, fexpired, fret>>
  /\ UNCHANGED <<queueVars, cacheVars, retryVars, faultVars, searchVars>>

FetchRetry(c) == FetchRetryWithin(MaxStarts, c)

\* if (result): what fetchOTP stores in the cache
ShouldCacheAlways(result) == TRUE
ShouldCacheNever(result) == FALSE
ShouldCache(result) == result.status = "value"

\* Call c's task has settled. .finally() runs this.processing-- and
\* _process(), whose dispatched task starts; then fetchOTP resumes after
\* `await this.queue.enqueue(...)`: a result that is not null gets its
\* timeTaken and is cached, an error is thrown on. The locals of the call
\* end with it.
FetchSettledWithin(max, c) ==
  /\ c \in Calls
  /\ tstate[c] \in {"resolved", "rejected"}
  /\ ProcessAndStartWithin(max, queue, processing - 1,
                           [tstate EXCEPT ![c] = "done"])
  /\ fstage' = [fstage EXCEPT ![c] = "returned"]
  /\ fstartAt' = [fstartAt EXCEPT ![c] = 0]
  /\ fattempt' = [fattempt EXCEPT ![c] = 0]
  /\ fres' = [fres EXCEPT ![c] = NoResult]
  /\ fargs' = [fargs EXCEPT ![c] = NoArgs]
  /\ fexpired' = [fexpired EXCEPT ![c] = FALSE]
  /\ IF ShouldCache(fres[c])
       THEN /\ fret' = [call |-> c, args |-> fargs[c],
                        result |-> [fres[c] EXCEPT !.timeTaken =
                                      TimeTaken(fstartAt[c], cnow)]]
            /\ cache' = CacheSet(cache, fargs[c].email, fargs[c].service,
                                 fres[c].kind, cnow)
       ELSE /\ fret' = [call |-> c, args |-> fargs[c], result |-> fres[c]]
            /\ UNCHANGED cache
  /\ lastEnd' = "none"
  /\ UNCHANGED fcalls
  /\ UNCHANGED <<enqueued, enqAt, qnow, waited, cnow, obs>>
  /\ UNCHANGED <<retryVars, faultVars, searchVars>>

FetchSettled(c) == FetchSettledWithin(MaxStarts, c)

\* Time passes, up to the tick max.
TickUpTo(max) ==
  /\ cnow < max
  /\ cnow' = cnow + 1
  /\ UNCHANGED <<poolVars, queueVars, cache, obs, retryVars, faultVars,
                 searchVars, fetchVars>>

FetchNext ==
  \/ \E s \in FetchServices, e \in FetchEmails, t \in FetchTypes : FetchOTP(s, e, t)
  \/ \E a \in Attempts, ok \in BOOLEAN : InitStep(a, ok)
  \/ \E a \in Attempts : AcquireResume(a)
  \/ \E a \in Attempts : AcquirePoll(a)
  \/ \E c \in Calls : FetchAcquireTimeout(c)
  \/ \E c \in Calls, o \in Outcomes : FetchAttemptEnd(c, o)
  \/ \E c \in Sessions, ok \in BOOLEAN : RefreshDone(c, ok)
  \/ \E c \in Calls : FetchRetry(c)
  \/ \E c \in Calls : FetchSettled(c)

(***************************************************************************)
(* Claims about fetchOTP, checked under SpecFetch.                         *)
(***************************************************************************)

\* C12: a result cached by a fetch of one request kind is never returned as
\* a cache hit to a fetch of another request kind for the same target email
\* and service.
C12_HitHasRequestedKind ==
  (fret.result.status = "value" /\ fret.result.cached) =>
    fret.result.kind = fret.args.fetchType

\* C13: a fetchOTP call whose key has a fresh entry in the cache returns the
\* cached artifact marked cached with a fetch time of 0, and leaves the
\* pool, the attempts, the queue and the cache as they were, whatever the
\* other calls are doing.
C13_HitLeavesPoolAndQueue ==
  [][\A s \in FetchServices, e \in FetchEmails :
       (fcalls' = fcalls + 1 /\ fret'.call = fcalls'
        /\ fret'.args.service = s /\ fret'.args.email = e
        /\ CacheGet(cache, e, s, cnow).result # Null)
       => /\ fstage'[fcalls'] = "returned"
          /\ fret'.result =
               [status |-> "value", kind |-> CacheGet(cache, e, s, cnow).result,
                cached |-> TRUE, timeTaken |-> 0]
          /\ UNCHANGED <<poolVars, queueVars, cache>>]_vars

\* The call made last returned a hit while an earlier call's attempt holds
\* a session.
C13_Witness ==
  /\ fret.call = fcalls
  /\ fret.result.cached
  /\ \E c \in Calls : pc[c] = "search" /\ hold[c] # NoConn

C38_NoSessionDuringBackoff ==
  /\ [](\A c \in Calls : fstage[c] = "backoff" =>
          (hold[c] = NoConn /\ pc[c] = "idle"))
  /\ [][\A c \in Calls :
          (fstage[c] = "backoff" /\ fstage'[c] # "backoff")
          => (starts' = starts + 1 /\ pc'[c] # "idle")]_vars

\* The first attempt of the only call so far was handed a session and threw:
\* the call waits for its retry, and the session is available again.
C38_Witness ==
  \E c \in Calls :
    /\ fstage[c] = "backoff"
    /\ fattempt[c] = 0
    /\ fcalls = 1
    /\ \E s \in Range(available) : handedOut[s] > 0

\* C26: when acquire() throws because no session became available within
\* the pool's wait timeout, the retry loop makes no further acquire for that
\* fetch: the failure rejects the call's task at once.
C26_PoolTimeoutNotRetried ==
  [][\A c \in Calls :
       (fstage[c] = "pending" /\ pc[c] = "poll" /\ pc'[c] = "idle")
         => (tstate'[c] = "rejected" /\ fstage'[c] # "backoff")]_vars

(***************************************************************************)
(* fetchOTP called by a caller that awaits each call before the next one:  *)
(* the same steps, over a time long enough for a cached entry to expire.   *)
(***************************************************************************)
\* The last tick of the clock in a run of awaited calls.
MaxSeqTime == 2

NoCallInFlight == \A c \in Calls : fstage[c] \in {"new", "returned"}

SeqFetchOTP(service, email, fetchType) ==
  NoCallInFlight /\ FetchOTP(service, email, fetchType)

SeqTick == TickUpTo(MaxSeqTime)

FetchSeqNext ==
  \/ \E s \in FetchServices, e \in FetchEmails, t \in FetchTypes :
       SeqFetchOTP(s, e, t)
  \/ \E a \in Attempts, ok \in BOOLEAN : InitStep(a, ok)
  \/ \E a \in Attempts : AcquireResume(a)
  \/ \E a \in Attempts : AcquirePoll(a)
  \/ \E c \in Calls : FetchAcquireTimeout(c)
  \/ \E c \in Calls, o \in Outcomes : FetchAttemptEnd(c, o)
  \/ \E c \in Sessions, ok \in BOOLEAN : RefreshDone(c, ok)
  \/ \E c \in Calls : FetchRetry(c)
  \/ \E c \in Calls : FetchSettled(c)
  \/ SeqTick

\* Every entry of the cache c holds an artifact.
NoNullEntry(c) == \A i \in 1..Len(c) : c[i].data \in FetchTypes

\* Call c returns null or throws in this step.
ReturnsFailure(c) == FetchSettled(c) /\ fres[c].status \in {"null", "threw"}

\* C23 as stated: a fetchOTP call that ends with null or with a thrown
\* failure leaves the cache unchanged, from its first step to its return,
\* and the cache never holds a null entry.
C23_FailedCallLeavesCache ==
  [][/\ \A c \in Calls : ReturnsFailure(c) => (cache' = cache /\ ~fexpired[c])
     /\ NoNullEntry(cache')]_vars

\* C23: a fetchOTP call that ends with null or with a thrown failure stores
\* nothing in the cache: its return leaves the cache as it is, the one
\* change that a call makes before it returns is that its cache.get deletes
\* the expired entry of its own key, and the cache never holds a null entry.
C23_FailedCallStoresNothing ==
  [][/\ \A c \in Calls : ReturnsFailure(c) => cache' = cache
     /\ \A s \in FetchServices, e \in FetchEmails, t \in FetchTypes :
          SeqFetchOTP(s, e, t) =>
            \/ cache' = cache
            \/ /\ IndexOf(cache, CacheKey(e, s)) # 0
               /\ Expired(cache[IndexOf(cache, CacheKey(e, s))].timestamp, cnow)
               /\ cache' = MapDelete(cache, CacheKey(e, s))
     /\ (\A c \in Calls : ~FetchSettled(c)) =>
          \A i \in 1..Len(cache') : \E j \in 1..Len(cache) : cache'[i] = cache[j]
     /\ NoNullEntry(cache')]_vars

\* A call that found its key's entry expired has returned null: the entry
\* is gone and nothing took its place.
C23_Witness ==
  /\ fret.call > 1
  /\ fret.result = NullResult
  /\ cache = <<>>
  /\ cnow > cacheTTL

\* C24: when a fetchOTP that was no hit returns an artifact, the artifact is
\* in the cache and the result is not marked as cached; the next fetchOTP
\* for the same key, made while the entry is within the TTL, is a hit that
\* returns the same artifact.
C24_ResultCachedThenHit ==
  [][/\ \A c \in Calls :
          (FetchSettled(c) /\ fres[c].status = "value") =>
            /\ fret'.call = c
            /\ fret'.result.status = "value"
            /\ fret'.result.kind = fres[c].kind
            /\ ~fret'.result.cached
            /\ CacheGet(cache', fargs[c].email, fargs[c].service, cnow).result
                 = fres[c].kind
     /\ \A s \in FetchServices, e \in FetchEmails, t \in FetchTypes :
          LET i == IndexOf(cache, CacheKey(e, s))
          IN (/\ SeqFetchOTP(s, e, t)
              /\ fret.call = fcalls
              /\ fret.result.status = "value"
              /\ ~fret.result.cached
              /\ fret.args.service = s /\ fret.args.email = e
              /\ i # 0 => ~Expired(cache[i].timestamp, cnow))
             => /\ fret'.call = fcalls'
                /\ fret'.result = CachedResult(fret.result.kind)]_vars

\* A call has returned a hit with the artifact that the call before it found
\* and stored one TTL earlier.
C24_Witness ==
  /\ fret.call > 1
  /\ fret.result.cached
  /\ cache # <<>>
  /\ cnow - cache[1].timestamp = cacheTTL

(***************************************************************************)
(* A burst of fetchOTP calls for one key whose message is in the mailbox:  *)
(* more callers than the pool has sessions, every search finding the       *)
(* message, every connection made as long as the run has sessions left.    *)
(* Every step that is not the start of a call is taken when it stays       *)
(* possible: the event loop runs each continuation and each timer.         *)
(***************************************************************************)
\* acquire() calls in a burst: every call can use all its attempts.
BurstStarts == MaxFetches * (maxRetries + 1)

\* The key every caller of the burst asks for.
BurstService == CHOOSE s \in FetchServices : TRUE
BurstEmail == CHOOSE e \in FetchEmails : TRUE

BurstFetchOTP == FetchOTPWithin(BurstStarts, BurstService, BurstEmail, "otp")
\* _createConnection resolves while the run has sessions left.
BurstInitStep(a) == InitStep(a, created < MaxSessions)
BurstRefreshDone(conn) == RefreshDone(conn, created < MaxSessions)
\* Both searches complete and the message is found.
BurstAttemptEnd(c) == FetchAttemptEnd(c, "found")
BurstRetry(c) == FetchRetryWithin(BurstStarts, c)
BurstSettled(c) == FetchSettledWithin(BurstStarts, c)

BurstNext ==
  \/ BurstFetchOTP
  \/ \E a \in Attempts : BurstInitStep(a)
  \/ \E a \in Attempts : AcquireResume(a)
  \/ \E a \in Attempts : AcquirePoll(a)
  \/ \E c \in Calls : FetchAcquireTimeout(c)
  \/ \E c \in Calls : BurstAttemptEnd(c)
  \/ \E c \in Sessions : BurstRefreshDone(c)
  \/ \E c \in Calls : BurstRetry(c)
  \/ \E c \in Calls : BurstSettled(c)

\* Continuations, timers and collaborator calls that stay ready do run.
BurstFairness ==
  /\ \A a \in Attempts : WF_vars(BurstInitStep(a))
  /\ \A a \in Attempts : WF_vars(AcquireResume(a))
  /\ \A a \in Attempts : WF_vars(AcquirePoll(a))
  /\ \A c \in Calls : WF_vars(FetchAcquireTimeout(c))
  /\ \A c \in Calls : WF_vars(BurstAttemptEnd(c))
  /\ \A c \in Sessions : WF_vars(BurstRefreshDone(c))
  /\ \A c \in Calls : WF_vars(BurstRetry(c))
  /\ \A c \in Calls : WF_vars(BurstSettled(c))

maxRecentEmails == 2

\* The folders, in the order of the Promise.all of _fetchOTPInternal.
Inbox == "INBOX"
Spam == "[Gmail]/Spam"
Folders == {Inbox, Spam}
\* The session has no mailbox selected: before the first openBox, and after
\* an openBox that failed.
NoBox == ""

\* Message dates; a message without a Date header has NoDate, and the
\* parser callback dates it `new Date()`, which is later than every date.
Dates == {1, 2}
NoDate == 0
Now == 1 + CHOOSE d \in Dates : \A e \in Dates : d >= e

\* What simpleParser and the extractors make of a message: "code" when
\* _extractOTP or _extractResetLink finds an artifact, "none" when neither
\* does, "error" when the parser reports err, "lost" when the parser
\* callback never runs (the fetch delivers no 'message' or no 'body' for the
\* id, or simpleParser does not call back).
Messages ==
  [date : Dates \cup {NoDate}, parse : {"code"}]
    \cup {[date |-> NoDate, parse |-> "none"],
          [date |-> NoDate, parse |-> "error"],
          [date |-> NoDate, parse |-> "lost"]}

\* What conn.search can deliver: up to maxRecentEmails messages in every
\* combination, and one message more than that, with the newest artifact in
\* the message that the slice drops.
SearchResults ==
  LET short == UNION {[1..n -> Messages] : n \in 1..maxRecentEmails}
      full == [1..maxRecentEmails -> Messages]
  IN  short \cup {<<[date |-> NoDate, parse |-> "code"]>> \o r : r \in full}

\* results.slice(-CONFIG.maxRecentEmails)
SliceRecent(results) ==
  IF Len(results) <= maxRecentEmails
    THEN results
    ELSE SubSeq(results, Len(results) - maxRecentEmails + 1, Len(results))

\* parsed.date || new Date()
EmailDate(m) == IF m.date = NoDate THEN Now ELSE m.date

\* What a folder's promise, and the attempt, can give.
PendingResult == [status |-> "pending", date |-> 0, folder |-> "", msg |-> 0]
NullCandidate == [status |-> "null", date |-> 0, folder |-> "", msg |-> 0]

\* The entry that the parser callback pushes for message i of folder f.
Candidate(f, i, m) ==
  [status |-> "found", date |-> EmailDate(m), folder |-> f, msg |-> i]

OlderFirst(a, b) == a.date < b.date

\* (a, b) => b.date - a.date: the newer entry comes first
NewerFirst(a, b) == a.date > b.date

\* allEmails.sort(...), a stable sort: an entry goes before the first entry
\* that the comparison puts after it.
RECURSIVE InsertSorted(_, _)
InsertSorted(e, s) ==
  IF s = <<>> THEN <<e>>
  ELSE IF NewerFirst(e, Head(s)) THEN <<e>> \o s
  ELSE <<Head(s)>> \o InsertSorted(e, Tail(s))

RECURSIVE Sort(_)
Sort(s) ==
  IF s = <<>> THEN <<>>
  ELSE InsertSorted(s[Len(s)], Sort(SubSeq(s, 1, Len(s) - 1)))

\* _finishProcessing: what it passes to the callback
FinishProcessing(emails) ==
  IF emails = <<>> THEN NullCandidate ELSE Head(Sort(emails))

\* inboxResult || spamResult
FirstValid(inboxResult, spamResult) ==
  IF inboxResult.status = "found" THEN inboxResult ELSE spamResult

SearchInit ==
  /\ boxStage = [f \in Folders |-> "open"]
  /\ recentResults = [f \in Folders |-> <<>>]
  /\ parsedMsgs = [f \in Folders |-> {}]
  /\ processedCount = [f \in Folders |-> 0]
  /\ allEmails = [f \in Folders |-> <<>>]
  /\ fetchEvents = [f \in Folders |-> {}]
  /\ folderResult = [f \in Folders |-> PendingResult]
  /\ attemptResult = PendingResult
  /\ selected = NoBox

SearchFrame ==
  UNCHANGED <<poolVars, queueVars, cacheVars, retryVars, faultVars, fetchVars>>

\* The folder's callback, the resolve of its promise, is called with v: a
\* promise keeps the first value it is resolved with.  The callbacks of a
\* fetch that run after that change nothing that is read again, and they
\* are left out: a step of a fetch has its folder's promise pending.
Callback(f, v) ==
  folderResult' =
    [folderResult EXCEPT ![f] = IF @ = PendingResult THEN v ELSE @]

Undecided(f) == boxStage[f] = "fetch" /\ folderResult[f] = PendingResult

\* What a callback of the folder's search passes to resolve when the IMAP
\* library reports err: resolve(null), callback(null).
ErrorValueRaised == [status |-> "threw", date |-> 0, folder |-> "", msg |-> 0]
ErrorValue == NullCandidate

\* conn.openBox calls back, with err or without.
OpenBoxDone(f, err) ==
  /\ SearchFrame
  /\ boxStage[f] = "open"
  /\ IF err
       THEN /\ boxStage' = [boxStage EXCEPT ![f] = "failed"]
            /\ Callback(f, ErrorValue)
       ELSE /\ boxStage' = [boxStage EXCEPT ![f] = "search"]
            /\ UNCHANGED folderResult
  /\ selected' = IF err THEN NoBox ELSE f
  /\ UNCHANGED <<recentResults, parsedMsgs, processedCount, allEmails,
                 fetchEvents, attemptResult>>

\* conn.search calls back with err or with no message: the search gives null.
SearchFailed(f, err) ==
  /\ SearchFrame
  /\ UNCHANGED selected
  /\ boxStage[f] = "search"
  /\ boxStage' = [boxStage EXCEPT ![f] = IF err THEN "failed" ELSE "done"]
  /\ Callback(f, IF err THEN ErrorValue ELSE NullCandidate)
  /\ UNCHANGED <<recentResults, parsedMsgs, processedCount, allEmails,
                 fetchEvents, attemptResult>>

\* conn.search calls back with messages: _processEmails fetches the most
\* recent of them.
SearchFound(f, results) ==
  /\ boxStage[f] = "search"
  /\ SearchFrame
  /\ UNCHANGED selected
  /\ boxStage' = [boxStage EXCEPT ![f] = "fetch"]
  /\ recentResults' = [recentResults EXCEPT ![f] = SliceRecent(results)]
  /\ UNCHANGED <<parsedMsgs, processedCount, allEmails, fetchEvents,
                 folderResult, attemptResult>>

\* A step of the folder's fetch leaves its _processEmails with these
\* locals; they are dropped when the step settles the folder's promise,
\* since no later step reads them.
FetchLocals(f, parsed, count, emails, events, settles) ==
  /\ parsedMsgs' = [parsedMsgs EXCEPT ![f] = IF settles THEN {} ELSE parsed]
  /\ processedCount' =
       [processedCount EXCEPT ![f] = IF settles THEN 0 ELSE count]
  /\ allEmails' = [allEmails EXCEPT ![f] = IF settles THEN <<>> ELSE emails]
  /\ fetchEvents' = [fetchEvents EXCEPT ![f] = IF settles THEN {} ELSE events]

\* The simpleParser callback of message i of the folder's fetch runs.
ParseDone(f, i) ==
  LET m == recentResults[f][i]
      emails == IF m.parse = "code"
                  THEN Append(allEmails[f], Candidate(f, i, m))
                  ELSE allEmails[f]
      finished == processedCount[f] + 1 >= Len(recentResults[f])
  IN  /\ SearchFrame
      /\ UNCHANGED selected
      /\ Undecided(f)
      /\ i \in DOMAIN recentResults[f]
      /\ i \notin parsedMsgs[f]
      /\ m.parse # "lost"
      /\ FetchLocals(f, parsedMsgs[f] \cup {i}, processedCount[f] + 1,
                     emails, fetchEvents[f], finished)
      /\ IF finished
           THEN Callback(f, FinishProcessing(emails))
           ELSE UNCHANGED folderResult
      /\ UNCHANGED <<boxStage, recentResults, attemptResult>>

\* The fetch emits 'error'.
FetchError(f) ==
  /\ SearchFrame
  /\ UNCHANGED selected
  /\ Undecided(f)
  /\ fetchEvents[f] = {}
  /\ FetchLocals(f, parsedMsgs[f], processedCount[f], allEmails[f],
                 {"error"}, TRUE)
  /\ boxStage' = [boxStage EXCEPT ![f] = "failed"]
  /\ Callback(f, ErrorValue)
  /\ UNCHANGED <<recentResults, attemptResult>>

\* The fetch emits 'end': the handler arms its 500 ms timer.
FetchEnd(f) ==
  /\ SearchFrame
  /\ UNCHANGED selected
  /\ Undecided(f)
  /\ fetchEvents[f] = {}
  /\ FetchLocals(f, parsedMsgs[f], processedCount[f], allEmails[f],
                 {"end"}, FALSE)
  /\ UNCHANGED <<boxStage, recentResults, folderResult, attemptResult>>

\* The timer armed by 'end' runs.
EndTimer(f) ==
  /\ SearchFrame
  /\ UNCHANGED selected
  /\ Undecided(f)
  /\ "end" \in fetchEvents[f]
  /\ "timer" \notin fetchEvents[f]
  /\ FetchLocals(f, parsedMsgs[f], processedCount[f], allEmails[f],
                 fetchEvents[f] \cup {"timer"}, processedCount[f] = 0)
  /\ IF processedCount[f] = 0
       THEN Callback(f, NullCandidate)
       ELSE UNCHANGED folderResult
  /\ UNCHANGED <<boxStage, recentResults, attemptResult>>

\* Promise.all has both folders' values: the attempt returns.
AttemptReturn ==
  /\ SearchFrame
  /\ UNCHANGED selected
  /\ attemptResult = PendingResult
  /\ \A f \in Folders : folderResult[f] # PendingResult
  /\ attemptResult' = FirstValid(folderResult[Inbox], folderResult[Spam])
  /\ UNCHANGED <<boxStage, recentResults, parsedMsgs, processedCount,
                 allEmails, fetchEvents, folderResult>>

SearchNext ==
  \/ \E f \in Folders, err \in BOOLEAN : OpenBoxDone(f, err)
  \/ \E f \in Folders, err \in BOOLEAN : SearchFailed(f, err)
  \/ \E f \in Folders, results \in SearchResults : SearchFound(f, results)
  \/ \E f \in Folders, i \in 1..maxRecentEmails : ParseDone(f, i)
  \/ \E f \in Folders : FetchError(f)
  \/ \E f \in Folders : FetchEnd(f)
  \/ \E f \in Folders : EndTimer(f)
  \/ AttemptReturn

\* C21: when both folders return a candidate, the attempt returns the
\* candidate with the most recent message date, whichever folder it is in.
C21_LatestCandidateWins ==
  (/\ attemptResult # PendingResult
   /\ \A f \in Folders : folderResult[f].status = "found")
  => \A f \in Folders : attemptResult.date >= folderResult[f].date

\* C31: when opening, searching or fetching one folder fails and the other
\* folder yields an artifact, the attempt returns that artifact; a folder's
\* error makes that folder's result null and no result of a folder or of
\* the attempt is ever an error.
C31_FolderErrorAbsorbed ==
  /\ \A f \in Folders :
        /\ folderResult[f].status \in {"pending", "null", "found"}
        /\ boxStage[f] = "failed" => folderResult[f] = NullCandidate
  /\ attemptResult.status \in {"pending", "null", "found"}
  /\ \A f, g \in Folders :
        (/\ attemptResult # PendingResult
         /\ boxStage[f] = "failed"
         /\ folderResult[g].status = "found")
        => attemptResult = folderResult[g]

\* The INBOX fetch reported an error, the Spam search found an artifact and
\* the attempt has returned it.
C31_Witness ==
  /\ boxStage[Inbox] = "failed"
  /\ recentResults[Inbox] # <<>>
  /\ folderResult[Spam].status = "found"
  /\ attemptResult = folderResult[Spam]

\* C33: an attempt's searches cannot hang: as long as the attempt has not
\* returned (and so has not released its session), some callback of its
\* searches or the return itself can still run, whatever the fetch delivers.
C33_AttemptNeverHangs ==
  attemptResult = PendingResult => ENABLED SearchNext

\* C34: once one folder's search has produced an artifact the attempt can
\* return, without waiting for the other folder's search.
C34_ReturnsOnFirstArtifact ==
  (/\ attemptResult = PendingResult
   /\ \E f \in Folders : folderResult[f].status = "found")
  => ENABLED AttemptReturn

\* C39: the search for a folder completes, and its fetch is issued, while
\* that folder is the mailbox selected on the session, so that a candidate
\* labelled with a folder was found in it.
C39_SearchRunsInOwnMailbox ==
  [][\A f \in Folders :
       (boxStage[f] = "search" /\ boxStage'[f] = "fetch") => selected = f]_vars

\* C40: the timer of the fetch's 'end' event never resolves a folder's
\* search null while the fetch has a message that yields an artifact, and
\* no callback of the fetch runs (callback is not called again) once the
\* search has its result.
C40_TimerNullOnlyWithoutArtifact ==
  [][\A f \in Folders :
       (/\ folderResult[f] = PendingResult
        /\ folderResult'[f] = NullCandidate
        /\ "end" \in fetchEvents[f])
       => {i \in DOMAIN recentResults[f] :
             recentResults[f][i].parse = "code"} = {}]_vars

\* The messages of the folder's fetch from which the extractors get a code
\* or a reset link.
Yielding(f) ==
  {i \in DOMAIN recentResults[f] : recentResults[f][i].parse = "code"}

\* C30: a folder's search returns at most one candidate, which is, among the
\* fetched messages of the folder that yield a code or reset link, one with
\* the latest message date; it returns null when none of them yields one.
C30_FolderReturnsLatestArtifact ==
  \A f \in Folders :
    (recentResults[f] # <<>> /\ folderResult[f] # PendingResult) =>
      /\ folderResult[f].status = "found" =>
           /\ folderResult[f].msg \in Yielding(f)
           /\ folderResult[f].folder = f
           /\ folderResult[f].date =
                EmailDate(recentResults[f][folderResult[f].msg])
           /\ \A i \in Yielding(f) :
                folderResult[f].date >= EmailDate(recentResults[f][i])
      /\ Yielding(f) = {} => folderResult[f] = NullCandidate

\* A folder whose fetch had two messages with an artifact, the second
\* dated later than the first, returned the second.
C30_Witness ==
  \E f \in Folders :
    /\ Yielding(f) = {1, 2}
    /\ recentResults[f][1].date = 1
    /\ recentResults[f][2].date = 2
    /\ folderResult[f].status = "found"
    /\ folderResult[f].msg = 2

(***************************************************************************)
(* The specifications: one component runs, the others stay as constructed. *)
(***************************************************************************)
Init ==
  /\ PoolInit /\ QueueInit /\ CacheInit /\ RetryInit /\ FaultInit
  /\ FetchInit /\ SearchInit

SpecPool == Init /\ [][PoolNext]_vars
SpecPoolDrain == Init /\ [][PoolDrainNext]_vars
SpecQueue == Init /\ [][QueueNext]_vars
SpecQueueFair == Init /\ [][QueueUntimedNext]_vars /\ QueueFairness
SpecCache == Init /\ [][CacheNext]_vars
SpecRetry == Init /\ [][RetryNext]_vars
SpecPoolFault == Init /\ [][PoolFaultNext]_vars
SpecFetch == Init /\ [][FetchNext]_vars
SpecSearch == Init /\ [][SearchNext]_vars
SpecFetchSeq == Init /\ [][FetchSeqNext]_vars
SpecBurst == Init /\ [][BurstNext]_vars /\ BurstFairness

====
